---- MODULE Spec2Model ----
(***************************************************************************)
(* A model of StoryIndexGenerator (code/lib/core-server/src/utils/         *)
(* StoryIndexGenerator.ts): the per-specifier caches, the two extraction   *)
(* sweeps of ensureExtracted, duplicate resolution, the memoized index and *)
(* error of getIndex, and invalidate.                                      *)
(*                                                                         *)
(* JavaScript runs one task at a time, so every action below is one        *)
(* run-to-completion stretch of code between two suspension points (the    *)
(* awaits on the story indexer, on fs.readFile and on sortStories).        *)
(* Paths are sequences of tokens, so that String.startsWith is a prefix    *)
(* test on sequences.                                                      *)
(***************************************************************************)
EXTENDS Integers, Sequences, FiniteSets, TLC

\* ------------------------------------------------------------------------
\* Bounds of the exploration
\* ------------------------------------------------------------------------
MaxCalls == 2          \* getIndex() calls that may be in flight together
MaxStarts == 3         \* getIndex() calls made in one behaviour
MaxInvalidates == 2    \* invalidate() calls made in one behaviour
MaxEntries == 3        \* entries with one id that are resolved in a row
MaxDependents == 2     \* length of a dependents list before invalidate
FairStarts == 2        \* getIndex() calls of a behaviour checked for liveness
FairInvalidates == 1   \* invalidate() calls of such a behaviour

\* ------------------------------------------------------------------------
\* Program constants and options
\* ------------------------------------------------------------------------
AUTODOCS_TAG == "autodocs"
STORIES_MDX_TAG == "stories-mdx"
IndexVersion == 4
storyStoreV7 == TRUE
autodocs == "tag"            \* options.docs.autodocs: "true", "tag" or "false"
defaultName == "Docs"        \* options.docs.defaultName
workingDir == "/w/"

Specifiers == <<"s1", "s2">>
SpecifierSet == {Specifiers[i] : i \in 1..Len(Specifiers)}
Calls == 1..MaxCalls

\* ------------------------------------------------------------------------
\* The files on disk.  Absolute paths start with the working directory,
\* import paths with "./".
\* ------------------------------------------------------------------------
docA == <<workingDir, "a", ".mdx">>
storiesA == <<workingDir, "a", ".stories", ".js">>
storiesB == <<workingDir, "b", ".stories", ".js">>
shotB == <<workingDir, "b", ".stories", ".storyshot">>

\* The result of glob(fullGlob).sort() for each specifier
glob(s) == IF s = "s1" THEN <<docA, storiesA>> ELSE <<storiesB, shotB>>

\* The files whose changes the file watcher reports for each specifier
watched(s) == IF s = "s1" THEN {docA, storiesA} ELSE {storiesB}

Undefined == [type |-> "undefined"]
Unprocessed == [type |-> "false"]
Null == [type |-> "null"]

Range(seq) == {seq[i] : i \in 1..Len(seq)}

startsWith(str, prefix) ==
  /\ Len(prefix) <= Len(str)
  /\ SubSeq(str, 1, Len(prefix)) = prefix

\* path.relative(workingDir, absolutePath), then normalizeStoryPath / "./"
relative(absolutePath) == <<"./">> \o Tail(absolutePath)

\* path.resolve(workingDir, p): an absolute path is kept, a relative one is
\* joined to the working directory
resolve(p) == IF Head(p) = "./" THEN <<workingDir>> \o Tail(p) ELSE p

makeAbsolute(otherImport) ==
  IF Head(otherImport) = "./" THEN <<workingDir>> \o Tail(otherImport)
  ELSE otherImport

isDocsMdx(absolutePath) ==
  LET n == Len(absolutePath) IN
  /\ n >= 1
  /\ absolutePath[n] = ".mdx"
  /\ ~(n >= 2 /\ absolutePath[n - 1] = ".stories")

hasIndexer(absolutePath) ==
  \E i \in 1..Len(absolutePath) : absolutePath[i] = ".stories"

toId(title, name) == <<title, name>>

\* userOrAutoTitleFromSpecifier: the user's title, else one made of the path
makeTitle(importPath, userTitle) ==
  IF userTitle # "" THEN userTitle ELSE importPath[2]

isMdxEntry(entry) ==
  /\ AUTODOCS_TAG \notin entry.tags
  /\ STORIES_MDX_TAG \notin entry.tags

\* ------------------------------------------------------------------------
\* What the external extractors can answer for each file.  A story indexer
\* answers a CSF description, the MDX analyzer an analysis; both can fail.
\* ------------------------------------------------------------------------
Csf(title, tags, names) ==
  [title |-> title, tags |-> tags,
   stories |-> [i \in 1..Len(names) |-> [name |-> names[i], docsOnly |-> FALSE]]]

Analysis(title, of, name, isTemplate, imports) ==
  [title |-> title, of |-> of, name |-> name, isTemplate |-> isTemplate,
   imports |-> imports, tags |-> {}]

IndexerAnswers(absolutePath) ==
  IF absolutePath = storiesA
  THEN {Csf("T", {}, <<"s">>)}
  ELSE IF absolutePath = storiesB
  THEN {Csf("U", {}, <<"s">>), Csf("T", {AUTODOCS_TAG}, <<"s">>)}
  ELSE {}

AnalyzeAnswers(absolutePath) ==
  IF absolutePath = docA
  THEN {Analysis("", <<"./", "a", ".stories">>, defaultName, FALSE,
                 <<<<"./", "a", ".stories">>, <<"./", "b", ".stories">>>>),
        Analysis("T", <<>>, defaultName, FALSE, <<>>),
        Analysis("", <<>>, "", TRUE, <<>>)}
  ELSE {Analysis("", <<>>, "", FALSE, <<>>)}

\* ------------------------------------------------------------------------
\* A specifier's cache: the object's keys in insertion order with their
\* entries
\* ------------------------------------------------------------------------
Keys(c) == [i \in 1..Len(c) |-> c[i].path]
Has(c, p) == \E i \in 1..Len(c) : c[i].path = p
Get(c, p) ==
  IF Has(c, p) THEN c[CHOOSE i \in 1..Len(c) : c[i].path = p].entry
  ELSE Undefined
Put(c, p, e) ==
  IF Has(c, p)
  THEN [i \in 1..Len(c) |-> IF c[i].path = p THEN [path |-> p, entry |-> e]
                            ELSE c[i]]
  ELSE Append(c, [path |-> p, entry |-> e])
Delete(c, p) == SelectSeq(c, LAMBDA r : r.path # p)
Truthy(e) == e.type \notin {"false", "undefined"}

\* new IndexingError(message, paths): detail stands for the part of the
\* message that names an id or a title
IndexingError(message, detail, paths) ==
  [message |-> message, detail |-> detail, paths |-> paths]
MultipleIndexingError(errs) == [type |-> "multiple", errors |-> errs]
ErrorEntry(err) == [type |-> "error", err |-> err]

RECURSIVE ConcatAll(_)
ConcatAll(seqs) ==
  IF seqs = <<>> THEN <<>> ELSE Head(seqs) \o ConcatAll(Tail(seqs))

\* ------------------------------------------------------------------------
\* findDependencies: the cached files that start with one of the imports,
\* cache by cache; each must hold a stories entry, anything else throws.
\* The dependencies are returned as references <<specifier, path>> into the
\* caches, since the code returns the cached objects themselves.
\* ------------------------------------------------------------------------
\* fileNames as it would be if the cached path had to be a prefix of the
\* import
fileNamesPrefixOfImport(cache, absoluteImports) ==
  SelectSeq(Keys(cache),
            LAMBDA fileName :
              \E i \in 1..Len(absoluteImports) :
                startsWith(absoluteImports[i], fileName))

fileNames(cache, absoluteImports) ==
  SelectSeq(Keys(cache),
            LAMBDA fileName :
              \E i \in 1..Len(absoluteImports) :
                startsWith(fileName, absoluteImports[i]))

findDependencies(caches, absoluteImports) ==
  LET found(s) == fileNames(caches[s], absoluteImports)
      refs == ConcatAll([i \in 1..Len(Specifiers) |->
                 [j \in 1..Len(found(Specifiers[i])) |->
                    <<Specifiers[i], found(Specifiers[i])[j]>>]])
      unexpected == {i \in 1..Len(refs) :
                       Get(caches[refs[i][1]], refs[i][2]).type # "stories"}
  IN IF unexpected # {}
     THEN [ok |-> FALSE, message |-> "Unexpected dependency", deps |-> <<>>]
     ELSE [ok |-> TRUE, message |-> "", deps |-> refs]

\* ------------------------------------------------------------------------
\* extractStories: the entries of one stories file, given the indexer's
\* answer
\* ------------------------------------------------------------------------
extractStories(absolutePath, csf) ==
  LET importPath == relative(absolutePath)
      kept == SelectSeq(csf.stories, LAMBDA st : ~st.docsOnly)
      storyEntries ==
        [i \in 1..Len(kept) |->
           [type |-> "story", id |-> toId(csf.title, kept[i].name),
            title |-> csf.title, name |-> kept[i].name,
            importPath |-> importPath, tags |-> csf.tags \cup {"story"}]]
      componentAutodocs == AUTODOCS_TAG \in csf.tags
      autodocsOptedIn ==
        autodocs = "true" \/ (autodocs = "tag" /\ componentAutodocs)
      docsEntry ==
        [type |-> "docs", id |-> toId(csf.title, defaultName),
         title |-> csf.title, name |-> defaultName,
         importPath |-> importPath,
         tags |-> csf.tags \cup {"docs"} \cup
                  (IF autodocsOptedIn /\ ~componentAutodocs
                   THEN {AUTODOCS_TAG} ELSE {}),
         storiesImports |-> <<>>]
      withDocs ==
        /\ Len(csf.stories) > 0
        /\ (STORIES_MDX_TAG \in csf.tags \/ autodocsOptedIn)
  IN [type |-> "stories",
      entries |-> IF withDocs THEN <<docsEntry>> \o storyEntries
                  ELSE storyEntries,
      dependents |-> <<>>]

\* autoName(docsImportPath, csfImportPath, defaultName): the default name
\* when both files have the same base name, else the docs file's base name
autoName(docsImportPath, csfImportPath, default) ==
  IF docsImportPath[2] = csfImportPath[2] THEN default ELSE docsImportPath[2]

\* dep.dependents.push(absolutePath) for every dependency
pushDependents(caches, deps, absolutePath) ==
  [s \in DOMAIN caches |->
     [i \in 1..Len(caches[s]) |->
        IF <<s, caches[s][i].path>> \in Range(deps)
        THEN [caches[s][i] EXCEPT
                !.entry.dependents = Append(@, absolutePath)]
        ELSE caches[s][i]]]

\* ------------------------------------------------------------------------
\* extractDocs, from the point where fs.readFile has answered (readOk) and
\* analyze has produced result.  It answers the caches (dependents lists
\* may have grown, also when it throws afterwards) and either the new cache
\* entry or the message of the error thrown.
\* ------------------------------------------------------------------------
extractDocs(caches, absolutePath, readOk, result) ==
  LET importPath == relative(absolutePath)
      Throw(c, message) == [caches |-> c, ok |-> FALSE, message |-> message,
                            entry |-> Undefined]
      Return(c, entry) == [caches |-> c, ok |-> TRUE, message |-> "",
                           entry |-> entry]
      absoluteImports ==
        [i \in 1..Len(result.imports) |-> makeAbsolute(result.imports[i])]
      found == findDependencies(caches, absoluteImports)
      deps == found.deps
      entriesOf(ref) == Get(caches[ref[1]], ref[2]).entries
      nonDocs(ref) == SelectSeq(entriesOf(ref), LAMBDA e : e.type # "docs")
      hasOf == result.of # <<>>
      absoluteOf == makeAbsolute(result.of)
      \* a dependency with entries but no story entry: first is undefined
      noFirst == {i \in 1..Len(deps) :
                    Len(entriesOf(deps[i])) > 0 /\ nonDocs(deps[i]) = <<>>}
      matching == {i \in 1..Len(deps) :
                     /\ Len(entriesOf(deps[i])) > 0
                     /\ startsWith(resolve(Head(nonDocs(deps[i])).importPath),
                                   absoluteOf)}
      csfEntry == Head(nonDocs(deps[CHOOSE i \in matching :
                                      \A j \in matching : j <= i]))
      hasCsf == hasOf /\ matching # {}
      pushed == pushDependents(caches, deps, absolutePath)
      title == IF hasCsf THEN csfEntry.title
               ELSE makeTitle(importPath, result.title)
      name == IF result.name # "" THEN result.name
              ELSE IF hasCsf
                   THEN autoName(importPath, csfEntry.importPath, defaultName)
                   ELSE defaultName
      emptyDep == {i \in 1..Len(deps) : Len(entriesOf(deps[i])) = 0}
      docsEntry ==
        [type |-> "docs", id |-> toId(title, name), title |-> title,
         name |-> name, importPath |-> importPath,
         storiesImports |->
           [i \in 1..Len(deps) |-> entriesOf(deps[i])[1].importPath],
         tags |-> result.tags \cup {"docs"}]
  IN IF ~storyStoreV7 THEN Throw(caches, "You cannot use .mdx files")
     ELSE IF ~readOk THEN Throw(caches, "readFile failed")
     ELSE IF result.isTemplate THEN Return(caches, Unprocessed)
     ELSE IF ~found.ok THEN Throw(caches, found.message)
     ELSE IF hasOf /\ noFirst # {} THEN Throw(caches, "TypeError")
     ELSE IF hasOf /\ matching = {} THEN Throw(caches, "Could not find CSF file")
     ELSE IF emptyDep # {} THEN Throw(pushed, "TypeError")
     ELSE Return(pushed, docsEntry)

\* ------------------------------------------------------------------------
\* chooseDuplicate: the surviving entry of two entries with one id, or the
\* IndexingError it throws
\* ------------------------------------------------------------------------
\* chooseDuplicate as it would be if a real docs entry did not outrank an
\* autogenerated one
chooseDuplicateByKindOnly(firstEntry, secondEntry) ==
  LET firstIsBetter ==
        IF secondEntry.type = "story" THEN FALSE
        ELSE TRUE
      betterEntry == IF firstIsBetter THEN firstEntry ELSE secondEntry
      worseEntry == IF firstIsBetter THEN secondEntry ELSE firstEntry
      Throw(err) == [ok |-> FALSE, err |-> err, entry |-> Undefined]
      Return(entry) == [ok |-> TRUE, err |-> Undefined, entry |-> entry]
  IN IF worseEntry.type = "story"
     THEN Throw(IndexingError("Duplicate stories with id", firstEntry.id,
                              <<firstEntry.importPath, secondEntry.importPath>>))
     ELSE IF betterEntry.type = "story" THEN Return(betterEntry)
     ELSE IF isMdxEntry(betterEntry)
     THEN IF AUTODOCS_TAG \in worseEntry.tags /\ autodocs # "true"
          THEN Throw(IndexingError("You created a component docs page",
                                   <<worseEntry.title>>,
                                   <<betterEntry.importPath,
                                     worseEntry.importPath>>))
          ELSE Return(betterEntry)
     ELSE Return([betterEntry EXCEPT
                    !.storiesImports = betterEntry.storiesImports
                                       \o <<worseEntry.importPath>>
                                       \o worseEntry.storiesImports])

\* chooseDuplicate as it would be if, of two docs entries of one rank, the
\* second were kept
chooseDuplicateLastWins(firstEntry, secondEntry) ==
  LET firstIsBetter ==
        IF secondEntry.type = "story" THEN FALSE
        ELSE IF /\ isMdxEntry(secondEntry)
                /\ firstEntry.type = "docs" THEN FALSE
        ELSE IF /\ firstEntry.type = "docs"
                /\ ~isMdxEntry(firstEntry) THEN FALSE
        ELSE TRUE
      betterEntry == IF firstIsBetter THEN firstEntry ELSE secondEntry
      worseEntry == IF firstIsBetter THEN secondEntry ELSE firstEntry
      Throw(err) == [ok |-> FALSE, err |-> err, entry |-> Undefined]
      Return(entry) == [ok |-> TRUE, err |-> Undefined, entry |-> entry]
  IN IF worseEntry.type = "story"
     THEN Throw(IndexingError("Duplicate stories with id", firstEntry.id,
                              <<firstEntry.importPath, secondEntry.importPath>>))
     ELSE IF betterEntry.type = "story" THEN Return(betterEntry)
     ELSE IF isMdxEntry(betterEntry)
     THEN IF AUTODOCS_TAG \in worseEntry.tags /\ autodocs # "true"
          THEN Throw(IndexingError("You created a component docs page",
                                   <<worseEntry.title>>,
                                   <<betterEntry.importPath,
                                     worseEntry.importPath>>))
          ELSE Return(betterEntry)
     ELSE Return([betterEntry EXCEPT
                    !.storiesImports = betterEntry.storiesImports
                                       \o <<worseEntry.importPath>>
                                       \o worseEntry.storiesImports])

\* chooseDuplicate as it would be if the merge joined the two storiesImports
\* lists and left the second entry's own file out
chooseDuplicateListsOnly(firstEntry, secondEntry) ==
  LET firstIsBetter ==
        IF secondEntry.type = "story" THEN FALSE
        ELSE IF /\ isMdxEntry(secondEntry)
                /\ firstEntry.type = "docs"
                /\ ~isMdxEntry(firstEntry) THEN FALSE
        ELSE TRUE
      betterEntry == IF firstIsBetter THEN firstEntry ELSE secondEntry
      worseEntry == IF firstIsBetter THEN secondEntry ELSE firstEntry
      Throw(err) == [ok |-> FALSE, err |-> err, entry |-> Undefined]
      Return(entry) == [ok |-> TRUE, err |-> Undefined, entry |-> entry]
  IN IF worseEntry.type = "story"
     THEN Throw(IndexingError("Duplicate stories with id", firstEntry.id,
                              <<firstEntry.importPath, secondEntry.importPath>>))
     ELSE IF betterEntry.type = "story" THEN Return(betterEntry)
     ELSE IF isMdxEntry(betterEntry)
     THEN IF AUTODOCS_TAG \in worseEntry.tags /\ autodocs # "true"
          THEN Throw(IndexingError("You created a component docs page",
                                   <<worseEntry.title>>,
                                   <<betterEntry.importPath,
                                     worseEntry.importPath>>))
          ELSE Return(betterEntry)
     ELSE Return([betterEntry EXCEPT
                    !.storiesImports = betterEntry.storiesImports
                                       \o worseEntry.storiesImports])

chooseDuplicate(firstEntry, secondEntry) ==
  LET firstIsBetter ==
        IF secondEntry.type = "story" THEN FALSE
        ELSE IF /\ isMdxEntry(secondEntry)
                /\ firstEntry.type = "docs"
                /\ ~isMdxEntry(firstEntry) THEN FALSE
        ELSE TRUE
      betterEntry == IF firstIsBetter THEN firstEntry ELSE secondEntry
      worseEntry == IF firstIsBetter THEN secondEntry ELSE firstEntry
      Throw(err) == [ok |-> FALSE, err |-> err, entry |-> Undefined]
      Return(entry) == [ok |-> TRUE, err |-> Undefined, entry |-> entry]
  IN IF worseEntry.type = "story"
     THEN Throw(IndexingError("Duplicate stories with id", firstEntry.id,
                              <<firstEntry.importPath, secondEntry.importPath>>))
     ELSE IF betterEntry.type = "story" THEN Return(betterEntry)
     ELSE IF isMdxEntry(betterEntry)
     THEN IF AUTODOCS_TAG \in worseEntry.tags /\ autodocs # "true"
          THEN Throw(IndexingError("You created a component docs page",
                                   <<worseEntry.title>>,
                                   <<betterEntry.importPath,
                                     worseEntry.importPath>>))
          ELSE Return(betterEntry)
     ELSE Return([betterEntry EXCEPT
                    !.storiesImports = betterEntry.storiesImports
                                       \o <<worseEntry.importPath>>
                                       \o worseEntry.storiesImports])

\* resolveEntry as it would be if getIndex stopped at the first conflict
resolveEntryFailFast(acc, entry) ==
  LET at == {i \in 1..Len(acc.indexEntries) :
               acc.indexEntries[i].id = entry.id}
  IN IF acc.duplicateErrors # <<>> THEN acc
     ELSE IF at = {}
     THEN [acc EXCEPT !.indexEntries = Append(@, entry)]
     ELSE LET i == CHOOSE i \in at : TRUE
              chosen == chooseDuplicate(acc.indexEntries[i], entry)
          IN IF chosen.ok
             THEN [acc EXCEPT !.indexEntries[i] = chosen.entry]
             ELSE [acc EXCEPT !.duplicateErrors = Append(@, chosen.err)]

\* resolveEntry as it would be if a failed resolution were dropped instead
\* of being recorded
resolveEntryForgiving(acc, entry) ==
  LET at == {i \in 1..Len(acc.indexEntries) :
               acc.indexEntries[i].id = entry.id}
  IN IF at = {}
     THEN [acc EXCEPT !.indexEntries = Append(@, entry)]
     ELSE LET i == CHOOSE i \in at : TRUE
              chosen == chooseDuplicate(acc.indexEntries[i], entry)
          IN IF chosen.ok
             THEN [acc EXCEPT !.indexEntries[i] = chosen.entry]
             ELSE acc

\* One turn of the forEach of getIndex: acc holds indexEntries (the object's
\* values in key order) and duplicateErrors
resolveEntry(acc, entry) ==
  LET at == {i \in 1..Len(acc.indexEntries) :
               acc.indexEntries[i].id = entry.id}
  IN IF at = {}
     THEN [acc EXCEPT !.indexEntries = Append(@, entry)]
     ELSE LET i == CHOOSE i \in at : TRUE
              chosen == chooseDuplicate(acc.indexEntries[i], entry)
          IN IF chosen.ok
             THEN [acc EXCEPT !.indexEntries[i] = chosen.entry]
             ELSE [acc EXCEPT !.duplicateErrors = Append(@, chosen.err)]

RECURSIVE resolveAll(_, _)
resolveAll(acc, storiesList) ==
  IF storiesList = <<>> THEN acc
  ELSE resolveAll(resolveEntry(acc, Head(storiesList)), Tail(storiesList))

\* The value ensureExtracted returns: every cache's entries, specifier by
\* specifier, an Unprocessed slot giving nothing
storiesListOf(caches) ==
  ConcatAll([i \in 1..Len(Specifiers) |->
     ConcatAll([j \in 1..Len(caches[Specifiers[i]]) |->
        LET entry == caches[Specifiers[i]][j].entry
        IN IF ~Truthy(entry) THEN <<>>
           ELSE IF entry.type = "stories" THEN entry.entries
           ELSE <<entry>>])])

\* storyFileNames: the keys of all caches, in "imported order"
storyFileNames(caches) ==
  ConcatAll([i \in 1..Len(Specifiers) |-> Keys(caches[Specifiers[i]])])

\* sortStoriesV7 without a storySort parameter: a stable sort on the position
\* of each entry's importPath in the file name order (0 when it is not there)
rank(fileNameOrder, entry) ==
  LET at == {i \in 1..Len(fileNameOrder) : fileNameOrder[i] = entry.importPath}
  IN IF at = {} THEN 0 ELSE CHOOSE i \in at : \A j \in at : i <= j

RECURSIVE insertSorted(_, _, _)
insertSorted(sorted, entry, fileNameOrder) ==
  IF sorted = <<>> THEN <<entry>>
  ELSE LET last == sorted[Len(sorted)]
       IN IF rank(fileNameOrder, last) <= rank(fileNameOrder, entry)
          THEN Append(sorted, entry)
          ELSE Append(insertSorted(SubSeq(sorted, 1, Len(sorted) - 1),
                                   entry, fileNameOrder), last)

RECURSIVE sortStoriesV7(_, _)
sortStoriesV7(entries, fileNameOrder) ==
  IF entries = <<>> THEN <<>>
  ELSE insertSorted(sortStoriesV7(SubSeq(entries, 1, Len(entries) - 1),
                                  fileNameOrder),
                    entries[Len(entries)], fileNameOrder)

sortStories(entries, caches) ==
  IF storyStoreV7 THEN sortStoriesV7(entries, storyFileNames(caches))
  ELSE entries

\* getIndexBody as it would be if the duplicates were resolved before the
\* error entries are looked at
getIndexBodyDuplicatesFirst(storiesList) ==
  LET errorEntries == SelectSeq(storiesList, LAMBDA e : e.type = "error")
      resolved == resolveAll([indexEntries |-> <<>>, duplicateErrors |-> <<>>],
                             SelectSeq(storiesList, LAMBDA e : e.type # "error"))
  IN IF Len(resolved.duplicateErrors) > 0
     THEN [ok |-> FALSE, entries |-> <<>>,
           err |-> MultipleIndexingError(resolved.duplicateErrors)]
     ELSE IF Len(errorEntries) > 0
     THEN [ok |-> FALSE, entries |-> <<>>,
           err |-> MultipleIndexingError(
                     [i \in 1..Len(errorEntries) |-> errorEntries[i].err])]
     ELSE [ok |-> TRUE, entries |-> resolved.indexEntries, err |-> Null]

\* The try block of getIndex up to the await of sortStories: the aggregate
\* error it throws, or the deduplicated entries
getIndexBody(storiesList) ==
  LET errorEntries == SelectSeq(storiesList, LAMBDA e : e.type = "error")
      resolved == resolveAll([indexEntries |-> <<>>, duplicateErrors |-> <<>>],
                             storiesList)
  IN IF Len(errorEntries) > 0
     THEN [ok |-> FALSE, entries |-> <<>>,
           err |-> MultipleIndexingError(
                     [i \in 1..Len(errorEntries) |-> errorEntries[i].err])]
     ELSE IF Len(resolved.duplicateErrors) > 0
     THEN [ok |-> FALSE, entries |-> <<>>,
           err |-> MultipleIndexingError(resolved.duplicateErrors)]
     ELSE [ok |-> TRUE, entries |-> resolved.indexEntries, err |-> Null]

\* ------------------------------------------------------------------------
\* updateExtracted.  A sweep visits the keys of every cache whose entry is
\* falsy.  What an updater does before its first await happens at the
\* launch; the tasks that wait for an extractor are left pending.
\* ------------------------------------------------------------------------
unprocessedTasks(caches) ==
  UNION {{<<s, caches[s][i].path>> :
            i \in {j \in 1..Len(caches[s]) : ~Truthy(caches[s][j].entry)}} :
         s \in DOMAIN caches}

\* The catch of updateExtracted: the slot gets an error entry that carries
\* the relativized path
caughtEntry(absolutePath, message) ==
  ErrorEntry(IndexingError(message, <<>>, <<relative(absolutePath)>>))

\* First sweep: a docs file resolves to false at once, a file without an
\* indexer throws at once, the others wait for their indexer
primarySweep(caches) ==
  LET tasks == unprocessedTasks(caches)
      noIndexer == {t \in tasks : ~isDocsMdx(t[2]) /\ ~hasIndexer(t[2])}
  IN [caches |->
        [s \in DOMAIN caches |->
           [i \in 1..Len(caches[s]) |->
              IF <<s, caches[s][i].path>> \in noIndexer
              THEN [caches[s][i] EXCEPT
                      !.entry = caughtEntry(caches[s][i].path,
                                            "No matching story indexer found")]
              ELSE caches[s][i]]],
      pending |-> {t \in tasks : ~isDocsMdx(t[2]) /\ hasIndexer(t[2])}]

\* Second sweep: extractDocs for every falsy slot; it waits for fs.readFile
\* unless storyStoreV7 is off, when it throws at once
secondarySweep(caches) ==
  LET tasks == unprocessedTasks(caches)
  IN IF storyStoreV7
     THEN [caches |-> caches, pending |-> tasks]
     ELSE [caches |->
             [s \in DOMAIN caches |->
                [i \in 1..Len(caches[s]) |->
                   IF <<s, caches[s][i].path>> \in tasks
                   THEN [caches[s][i] EXCEPT
                           !.entry = caughtEntry(caches[s][i].path,
                                                 "You cannot use .mdx files")]
                   ELSE caches[s][i]]],
           pending |-> {}]

\* afterSettle as it would be if a failed updater ended the sweep
afterSettleAbort(pending, task, ok) ==
  IF ok THEN pending \ {task} ELSE {}

\* The tasks of a sweep left once one of them has settled; a failure is
\* caught inside the task and settles it like a success
afterSettle(pending, task, ok) == pending \ {task}

\* updateExtractedDone as it would be if the sweep were not awaited
updateExtractedDoneUnawaited(pending) == TRUE

\* Promise.all of a sweep resolves when none of its tasks is pending
updateExtractedDone(pending) == pending = {}

\* ensureExtracted from its second sweep on, and from its start: where the
\* run stands at its next suspension ("extracted": it has returned)
startSecondSweep(caches, pend1) ==
  LET sweep == secondarySweep(caches)
  IN [caches |-> sweep.caches, pend1 |-> pend1, pend2 |-> sweep.pending,
      pc |-> IF updateExtractedDone(sweep.pending) THEN "extracted"
             ELSE "sweep2"]

ensureExtracted(caches) ==
  LET sweep == primarySweep(caches)
  IN IF updateExtractedDone(sweep.pending)
     THEN startSecondSweep(sweep.caches, sweep.pending)
     ELSE [caches |-> sweep.caches, pend1 |-> sweep.pending, pend2 |-> {},
           pc |-> "sweep1"]

\* ------------------------------------------------------------------------
\* invalidate(specifier, importPath, removed) as a function of the caches:
\* the new caches and whether findDependencies made it throw
\* ------------------------------------------------------------------------
\* dep.dependents.splice(dep.dependents.indexOf(absolutePath), 1); indexOf
\* answers -1 when the path is absent and splice(-1, 1) drops the last one
spliceDependent(dependents, absolutePath) ==
  LET at == {i \in 1..Len(dependents) : dependents[i] = absolutePath}
      k == IF at = {} THEN Len(dependents)
           ELSE CHOOSE i \in at : \A j \in at : i <= j
  IN [i \in 1..(Len(dependents) - (IF k = 0 THEN 0 ELSE 1)) |->
        IF i < k THEN dependents[i] ELSE dependents[i + 1]]

resetDependents(caches, dependents) ==
  [s \in DOMAIN caches |->
     [i \in 1..Len(caches[s]) |->
        IF /\ caches[s][i].path \in Range(dependents)
           /\ Truthy(caches[s][i].entry)
        THEN [caches[s][i] EXCEPT !.entry = Unprocessed]
        ELSE caches[s][i]]]

invalidate(caches, specifier, importPath, removed) ==
  LET absolutePath == resolve(importPath)
      cacheEntry == Get(caches[specifier], absolutePath)
      reset == IF cacheEntry.type = "stories"
               THEN resetDependents(caches, cacheEntry.dependents)
               ELSE caches
      isDocs == cacheEntry.type = "docs"
      absoluteImports ==
        IF isDocs
        THEN [i \in 1..Len(cacheEntry.storiesImports) |->
                resolve(cacheEntry.storiesImports[i])]
        ELSE <<>>
      found == findDependencies(reset, absoluteImports)
      spliced ==
        [s \in DOMAIN reset |->
           [i \in 1..Len(reset[s]) |->
              IF <<s, reset[s][i].path>> \in Range(found.deps)
              THEN [reset[s][i] EXCEPT
                      !.entry.dependents = spliceDependent(@, absolutePath)]
              ELSE reset[s][i]]]
  IN IF removed
     THEN IF isDocs /\ ~found.ok
          THEN [caches |-> reset, threw |-> TRUE]
          ELSE [caches |->
                  [(IF isDocs THEN spliced ELSE reset) EXCEPT
                     ![specifier] = Delete(@, absolutePath)],
                threw |-> FALSE]
     ELSE [caches |-> [reset EXCEPT
                         ![specifier] = Put(@, absolutePath, Unprocessed)],
           threw |-> FALSE]

\* ------------------------------------------------------------------------
\* The state
\* ------------------------------------------------------------------------
VARIABLES
  specifierToCache,  \* specifier -> cache (keys in insertion order)
  phase,             \* "constructed", "initializing" or "ready"
  lastIndex,         \* the memoized index, or Null
  lastError,         \* the memoized error, or Null
  run,               \* per call: where its ensureExtracted / getIndex stands
  starts,            \* getIndex() calls made so far
  invalidations,     \* invalidate() calls made so far
  ev,                \* the step just taken and what it answered its caller
  returned,          \* the indexes getIndex returned since the last invalidate
  thrown,            \* the errors getIndex threw since the last invalidate
  scope              \* the pairs the last invalidate() reset or deleted when it
                     \* followed the building of an index, else Null

vars == <<specifierToCache, phase, lastIndex, lastError, run, starts,
          invalidations, ev, returned, thrown, scope>>

IdleRun == [kind |-> "none", pc |-> "idle", pend1 |-> {}, pend2 |-> {},
            entries |-> <<>>]
NoRet == [kind |-> "none", val |-> Null]
Failure == [failed |-> TRUE]
NoTask == <<>>

Event(op, call, task, ok, removed, ret, memo) ==
  [op |-> op, call |-> call, task |-> task, ok |-> ok, removed |-> removed,
   ret |-> ret, memo |-> memo]

\* index is the index getIndex builds from the caches as they stand
Built(caches, index) ==
  LET body == getIndexBody(storiesListOf(caches))
  IN /\ body.ok
     /\ index = [v |-> IndexVersion, entries |-> sortStories(body.entries, caches)]

\* The pairs an invalidate of absolutePath is about: the path itself and, in
\* every cache, the paths in the dependents list of its stories entry
Touched(caches, specifier, absolutePath) ==
  LET cacheEntry == Get(caches[specifier], absolutePath)
  IN {<<specifier, absolutePath>>} \cup
     (IF cacheEntry.type = "stories"
      THEN SpecifierSet \X Range(cacheEntry.dependents)
      ELSE {})

Init ==
  /\ specifierToCache = [s \in SpecifierSet |-> <<>>]
  /\ phase = "constructed"
  /\ lastIndex = Null
  /\ lastError = Null
  /\ run = [c \in Calls |-> IdleRun]
  /\ starts = 0
  /\ invalidations = 0
  /\ ev = Event("new", 0, NoTask, TRUE, FALSE, NoRet, FALSE)
  /\ returned = {}
  /\ thrown = {}
  /\ scope = Null

\* What follows ensureExtracted in its caller once the run stands at st: the
\* run stays suspended, or initialize ends, or getIndex goes through its try
\* block, memoizing the error it throws or suspending on sortStories
Proceed(c, kind, st, op, task, ok) ==
  /\ specifierToCache' = st.caches
  /\ IF st.pc # "extracted"
     THEN /\ run' = [run EXCEPT ![c] = [kind |-> kind, pc |-> st.pc,
                                        pend1 |-> st.pend1,
                                        pend2 |-> st.pend2,
                                        entries |-> run[c].entries]]
          /\ ev' = Event(op, c, task, ok, FALSE, NoRet, FALSE)
          /\ UNCHANGED <<phase, lastIndex, lastError, returned, thrown>>
     ELSE IF kind = "initialize"
     THEN /\ run' = [run EXCEPT ![c] = IdleRun]
          /\ phase' = "ready"
          /\ ev' = Event(op, c, task, ok, FALSE, NoRet, FALSE)
          /\ UNCHANGED <<lastIndex, lastError, returned, thrown>>
     ELSE LET body == getIndexBody(storiesListOf(st.caches))
          IN IF body.ok
             THEN /\ run' = [run EXCEPT ![c] = [kind |-> kind, pc |-> "sort",
                                                pend1 |-> st.pend1,
                                                pend2 |-> st.pend2,
                                                entries |-> body.entries]]
                  /\ ev' = Event(op, c, task, ok, FALSE, NoRet, FALSE)
                  /\ UNCHANGED <<phase, lastIndex, lastError, returned, thrown>>
             ELSE /\ run' = [run EXCEPT ![c] = [IdleRun EXCEPT
                                                  !.pend1 = st.pend1,
                                                  !.pend2 = st.pend2]]
                  /\ lastError' = body.err
                  /\ thrown' = thrown \cup {body.err}
                  /\ ev' = Event(op, c, task, ok, FALSE,
                                 [kind |-> "error", val |-> body.err], FALSE)
                  /\ UNCHANGED <<phase, lastIndex, returned>>

\* initialize(): the caches get one Unprocessed slot per globbed file, the
\* .storyshot files left out, and ensureExtracted starts
initialize ==
  /\ phase = "constructed"
  /\ LET files(s) == SelectSeq(glob(s),
                               LAMBDA f : f[Len(f)] # ".storyshot")
         populated == [s \in SpecifierSet |->
                         [i \in 1..Len(files(s)) |->
                            [path |-> files(s)[i], entry |-> Unprocessed]]]
         st == ensureExtracted(populated)
     IN /\ specifierToCache' = st.caches
        /\ IF st.pc = "extracted"
           THEN phase' = "ready" /\ run' = run
           ELSE /\ phase' = "initializing"
                /\ run' = [run EXCEPT ![1] = [kind |-> "initialize",
                                              pc |-> st.pc,
                                              pend1 |-> st.pend1,
                                              pend2 |-> st.pend2,
                                              entries |-> <<>>]]
  /\ ev' = Event("initialize", 1, NoTask, TRUE, FALSE, NoRet, FALSE)
  /\ UNCHANGED <<lastIndex, lastError, starts, invalidations, returned, thrown,
                 scope>>

\* getIndex(), up to its first suspension: a memoized index or error is
\* answered at once, otherwise ensureExtracted starts
getIndex(c) ==
  /\ phase = "ready"
  /\ run[c].pc = "idle"
  /\ \A d \in Calls : d < c => run[d].pc # "idle"
  /\ starts < MaxStarts
  /\ starts' = starts + 1
  /\ UNCHANGED invalidations
  /\ IF lastIndex # Null
     THEN /\ ev' = Event("getIndex", c, NoTask, TRUE, FALSE,
                         [kind |-> "index", val |-> lastIndex], TRUE)
          /\ returned' = returned \cup {lastIndex}
          /\ UNCHANGED <<specifierToCache, phase, lastIndex, lastError, run,
                         thrown>>
     ELSE IF lastError # Null
     THEN /\ ev' = Event("getIndex", c, NoTask, TRUE, FALSE,
                         [kind |-> "error", val |-> lastError], TRUE)
          /\ thrown' = thrown \cup {lastError}
          /\ UNCHANGED <<specifierToCache, phase, lastIndex, lastError, run,
                         returned>>
     ELSE Proceed(c, "getIndex", ensureExtracted(specifierToCache),
                  "getIndex", NoTask, TRUE)
  /\ scope' = IF run'[c].pc = "idle" THEN Null ELSE scope

\* A story indexer answers a task of the first sweep: the slot gets the
\* stories entry, or the error entry when the indexer threw
settleStories(c, task) ==
  /\ task \in run[c].pend1
  /\ \E answer \in IndexerAnswers(task[2]) \cup {Failure} :
       LET ok == answer # Failure
           entry == IF ok THEN extractStories(task[2], answer)
                    ELSE caughtEntry(task[2], "indexer failed")
           caches1 == [specifierToCache EXCEPT
                         ![task[1]] = Put(@, task[2], entry)]
           left == afterSettle(run[c].pend1, task, ok)
           st == IF run[c].pc = "sweep1" /\ updateExtractedDone(left)
                 THEN startSecondSweep(caches1, left)
                 ELSE [caches |-> caches1, pend1 |-> left,
                       pend2 |-> run[c].pend2, pc |-> run[c].pc]
       IN \E now \in {st} :
            Proceed(c, run[c].kind, now, "settle", task, ok)
  /\ scope' = IF run'[c].pc = "idle" THEN Null ELSE scope
  /\ UNCHANGED <<starts, invalidations>>

\* fs.readFile answers a task of the second sweep and extractDocs runs to
\* its end: the slot gets the docs entry, false for a template, or the error
\* entry
settleDocs(c, task) ==
  /\ task \in run[c].pend2
  /\ \E answer \in AnalyzeAnswers(task[2]) \cup {Failure} :
       LET readOk == answer # Failure
           result == IF readOk THEN answer
                     ELSE Analysis("", <<>>, "", FALSE, <<>>)
           r == extractDocs(specifierToCache, task[2], readOk, result)
           entry == IF r.ok THEN r.entry ELSE caughtEntry(task[2], r.message)
           caches2 == [r.caches EXCEPT ![task[1]] = Put(@, task[2], entry)]
           left == afterSettle(run[c].pend2, task, r.ok)
           st == [caches |-> caches2, pend1 |-> run[c].pend1, pend2 |-> left,
                  pc |-> IF run[c].pc = "sweep2" /\ updateExtractedDone(left)
                         THEN "extracted" ELSE run[c].pc]
       IN \E now \in {st} :
            Proceed(c, run[c].kind, now, "settle", task, r.ok)
  /\ scope' = IF run'[c].pc = "idle" THEN Null ELSE scope
  /\ UNCHANGED <<starts, invalidations>>

\* sorted as it would be if getIndex returned its index without keeping it
sortedForgetful(c) ==
  /\ run[c].pc = "sort"
  /\ \E ok \in BOOLEAN :
       IF ok
       THEN LET index == [v |-> IndexVersion,
                          entries |-> sortStories(run[c].entries,
                                                  specifierToCache)]
            IN /\ lastIndex' = lastIndex
               /\ returned' = returned \cup {index}
               /\ ev' = Event("sorted", c, NoTask, TRUE, FALSE,
                              [kind |-> "index", val |-> index], FALSE)
               /\ UNCHANGED <<lastError, thrown>>
       ELSE LET err == [type |-> "preview", errors |-> <<>>]
            IN /\ lastError' = err
               /\ thrown' = thrown \cup {err}
               /\ ev' = Event("sorted", c, NoTask, FALSE, FALSE,
                              [kind |-> "error", val |-> err], FALSE)
               /\ UNCHANGED <<lastIndex, returned>>
  /\ run' = [run EXCEPT ![c] = [IdleRun EXCEPT !.pend1 = run[c].pend1,
                                               !.pend2 = run[c].pend2]]
  /\ scope' = Null
  /\ UNCHANGED <<specifierToCache, phase, starts, invalidations>>

\* sortStories answers: getIndex memoizes and returns the index, or
\* memoizes and throws the error of reading the preview file
sorted(c) ==
  /\ run[c].pc = "sort"
  /\ \E ok \in BOOLEAN :
       IF ok
       THEN LET index == [v |-> IndexVersion,
                          entries |-> sortStories(run[c].entries,
                                                  specifierToCache)]
            IN /\ lastIndex' = index
               /\ returned' = returned \cup {index}
               /\ ev' = Event("sorted", c, NoTask, TRUE, FALSE,
                              [kind |-> "index", val |-> index], FALSE)
               /\ UNCHANGED <<lastError, thrown>>
       ELSE LET err == [type |-> "preview", errors |-> <<>>]
            IN /\ lastError' = err
               /\ thrown' = thrown \cup {err}
               /\ ev' = Event("sorted", c, NoTask, FALSE, FALSE,
                              [kind |-> "error", val |-> err], FALSE)
               /\ UNCHANGED <<lastIndex, returned>>
  /\ run' = [run EXCEPT ![c] = [IdleRun EXCEPT !.pend1 = run[c].pend1,
                                               !.pend2 = run[c].pend2]]
  /\ scope' = Null
  /\ UNCHANGED <<specifierToCache, phase, starts, invalidations>>

\* invalidate(specifier, importPath, removed), called by the file watcher
\* for a file of the specifier
Invalidate(specifier, importPath, removed) ==
  /\ phase = "ready"
  /\ invalidations < MaxInvalidates
  /\ invalidations' = invalidations + 1
  /\ LET r == invalidate(specifierToCache, specifier, importPath, removed)
     IN /\ specifierToCache' = r.caches
        /\ IF r.threw THEN UNCHANGED <<lastIndex, lastError>>
           ELSE lastIndex' = Null /\ lastError' = Null
        /\ ev' = Event("invalidate", 0, <<specifier, resolve(importPath)>>,
                       ~r.threw, removed, NoRet, FALSE)
  /\ returned' = {}
  /\ thrown' = {}
  /\ scope' = IF /\ \A c \in Calls : run[c].pc = "idle"
                 /\ Built(specifierToCache, lastIndex)
              THEN [type |-> "scope",
                    pairs |-> Touched(specifierToCache, specifier,
                                      resolve(importPath))]
              ELSE Null
  /\ UNCHANGED <<phase, run, starts>>

Next ==
  \/ initialize
  \/ \E c \in Calls : getIndex(c)
  \/ \E c \in Calls : \E task \in run[c].pend1 : settleStories(c, task)
  \/ \E c \in Calls : \E task \in run[c].pend2 : settleDocs(c, task)
  \/ \E c \in Calls : sorted(c)
  \/ \E s \in SpecifierSet : \E file \in watched(s) :
       \E removed \in BOOLEAN : Invalidate(s, relative(file), removed)

Spec == Init /\ [][Next]_vars

\* The event loop runs every callback that is ready: an extractor that was
\* invoked settles, and so does sortStories
Settle ==
  \E c \in Calls :
    \/ \E task \in run[c].pend1 : settleStories(c, task)
    \/ \E task \in run[c].pend2 : settleDocs(c, task)
    \/ sorted(c)

Fairness == WF_vars(Settle)

NextFair ==
  /\ Next
  /\ starts' <= FairStarts
  /\ invalidations' <= FairInvalidates

SpecFair == Init /\ [][NextFair]_vars /\ Fairness

\* ------------------------------------------------------------------------
\* One caller at a time: getIndex() and invalidate() are called only when no
\* call is in flight, and the watcher reports the removal of a file only
\* when the file is there
\* ------------------------------------------------------------------------
Quiet ==
  \A c \in Calls :
    run[c].pc = "idle" /\ run[c].pend1 = {} /\ run[c].pend2 = {}

NextSequential ==
  \/ initialize
  \/ Quiet /\ getIndex(1)
  \/ \E c \in Calls : \E task \in run[c].pend1 : settleStories(c, task)
  \/ \E c \in Calls : \E task \in run[c].pend2 : settleDocs(c, task)
  \/ \E c \in Calls : sorted(c)
  \/ \E s \in SpecifierSet : \E file \in watched(s) :
       \E removed \in BOOLEAN :
         /\ Quiet
         /\ removed => Has(specifierToCache[s], file)
         /\ Invalidate(s, relative(file), removed)

SpecSequential == Init /\ [][NextSequential]_vars

\* ------------------------------------------------------------------------
\* Duplicate resolution on its own.  The entries below all have one id: two
\* story entries, two docs entries attached to CSF files by the autodocs
\* tag, one attached to a CSF file transpiled from a .stories.mdx, and two
\* docs entries of .mdx files.
\* ------------------------------------------------------------------------
StoryEntry(importPath) ==
  [type |-> "story", id |-> toId("T", defaultName), title |-> "T",
   name |-> defaultName, importPath |-> importPath, tags |-> {"story"}]

AttachedDocsEntry(importPath, tag) ==
  [type |-> "docs", id |-> toId("T", defaultName), title |-> "T",
   name |-> defaultName, importPath |-> importPath, tags |-> {tag, "docs"},
   storiesImports |-> <<>>]

MdxDocsEntry(importPath, storiesImports) ==
  [type |-> "docs", id |-> toId("T", defaultName), title |-> "T",
   name |-> defaultName, importPath |-> importPath,
   storiesImports |-> storiesImports, tags |-> {"docs"}]

DuplicateEntries ==
  {StoryEntry(<<"./", "a", ".stories", ".js">>),
   StoryEntry(<<"./", "b", ".stories", ".js">>),
   AttachedDocsEntry(<<"./", "c", ".stories", ".js">>, AUTODOCS_TAG),
   AttachedDocsEntry(<<"./", "d", ".stories", ".js">>, AUTODOCS_TAG),
   AttachedDocsEntry(<<"./", "e", ".stories", ".mdx">>, STORIES_MDX_TAG),
   MdxDocsEntry(<<"./", "f", ".mdx">>, <<<<"./", "a", ".stories", ".js">>>>),
   MdxDocsEntry(<<"./", "g", ".mdx">>, <<<<"./", "b", ".stories", ".js">>>>)}

\* A call of chooseDuplicate(firstEntry, secondEntry); used holds the entries
\* resolved so far
ChooseDuplicate(firstEntry, secondEntry, used) ==
  /\ ev' = [op |-> "chooseDuplicate", first |-> firstEntry,
            second |-> secondEntry,
            ret |-> chooseDuplicate(firstEntry, secondEntry),
            used |-> used \cup {secondEntry}]
  /\ UNCHANGED <<specifierToCache, phase, lastIndex, lastError, run, starts,
                 invalidations, returned, thrown, scope>>

\* chooseDuplicate is called with two entries, or, as the forEach of getIndex
\* does, with the entry held for the id after the last call and a new entry
NextChoose ==
  \/ \E a \in DuplicateEntries : \E b \in DuplicateEntries \ {a} :
       ChooseDuplicate(a, b, {a})
  \/ \E b \in DuplicateEntries :
       /\ ev.op = "chooseDuplicate"
       /\ Cardinality(ev.used) < MaxEntries
       /\ b \notin ev.used
       /\ ChooseDuplicate(IF ev.ret.ok THEN ev.ret.entry ELSE ev.first, b,
                          ev.used)

SpecChoose == Init /\ [][NextChoose]_vars

\* The caches once the files of the entries of list have been extracted: a
\* docs entry of an .mdx file is the slot of that file, any other entry is
\* the entry of a stories slot; the first file is of specifier s1, the
\* others of s2
SlotOf(entry) ==
  [path |-> resolve(entry.importPath),
   entry |-> IF entry.type = "docs" /\ isMdxEntry(entry) THEN entry
             ELSE [type |-> "stories", entries |-> <<entry>>,
                   dependents |-> <<>>]]

Extracted(list) ==
  [s \in SpecifierSet |->
     IF s = Specifiers[1] THEN <<SlotOf(list[1])>>
     ELSE IF s = Specifiers[2]
     THEN [i \in 1..(Len(list) - 1) |-> SlotOf(list[i + 1])]
     ELSE <<>>]

DuplicateLists ==
  {list \in UNION {[1..n -> DuplicateEntries] : n \in 2..MaxEntries} :
     \A i, j \in 1..Len(list) : list[i] = list[j] => i = j}

InitDuplicates ==
  /\ specifierToCache \in {Extracted(list) : list \in DuplicateLists}
  /\ phase = "ready"
  /\ lastIndex = Null
  /\ lastError = Null
  /\ run = [c \in Calls |-> IdleRun]
  /\ starts = 0
  /\ invalidations = 0
  /\ ev = Event("new", 0, NoTask, TRUE, FALSE, NoRet, FALSE)
  /\ returned = {}
  /\ thrown = {}
  /\ scope = Null

NextDuplicates ==
  \/ \E c \in Calls : getIndex(c)
  \/ \E c \in Calls : sorted(c)

SpecDuplicates == InitDuplicates /\ [][NextDuplicates]_vars

\* ------------------------------------------------------------------------
\* The dependency edges on their own.  The caches hold two docs files and
\* two stories files after extractions and invalidations: each stories
\* entry has some dependents list, a.mdx is unprocessed or a docs entry that
\* imports one or both stories files, c.mdx a docs entry that imports
\* a.stories.js.
\* ------------------------------------------------------------------------
docC == <<workingDir, "c", ".mdx">>

Sequences(S, n) == UNION {[1..k -> S] : k \in 0..n}

StoriesSlot(absolutePath, dependents) ==
  [path |-> absolutePath,
   entry |-> [extractStories(absolutePath, Csf("T", {}, <<"s">>))
                EXCEPT !.dependents = dependents]]

DocsSlot(absolutePath, storiesImports) ==
  [path |-> absolutePath,
   entry |-> [type |-> "docs", id |-> toId("T", absolutePath[2]),
              title |-> "T", name |-> absolutePath[2],
              importPath |-> relative(absolutePath),
              storiesImports |-> storiesImports, tags |-> {"docs"}]]

DependencyCaches ==
  {[s \in SpecifierSet |->
      IF s = Specifiers[1] THEN <<slotA, DocsSlot(docC, <<relative(storiesA)>>),
                                  StoriesSlot(storiesA, dependentsA)>>
      ELSE IF s = Specifiers[2] THEN <<StoriesSlot(storiesB, dependentsB)>>
      ELSE <<>>] :
     slotA \in {[path |-> docA, entry |-> Unprocessed],
                DocsSlot(docA, <<relative(storiesA)>>),
                DocsSlot(docA, <<relative(storiesA), relative(storiesB)>>)},
     dependentsA \in Sequences({docA, docC}, MaxDependents),
     dependentsB \in Sequences({docA, docC}, MaxDependents)}

ImportLists ==
  {<<>>,
   <<<<workingDir, "a", ".stories">>>>,
   <<<<workingDir, "a", ".stories", ".js", ".map">>>>,
   <<<<workingDir, "b", ".stories">>, <<"react">>>>,
   <<<<workingDir, "a", ".stories">>, <<workingDir, "b", ".stories", ".js">>>>,
   <<<<workingDir, "a">>>>}

InitDependencies ==
  /\ specifierToCache \in DependencyCaches
  /\ phase = "ready"
  /\ lastIndex = Null
  /\ lastError = Null
  /\ run = [c \in Calls |-> IdleRun]
  /\ starts = 0
  /\ invalidations = 0
  /\ ev = Event("new", 0, NoTask, TRUE, FALSE, NoRet, FALSE)
  /\ returned = {}
  /\ thrown = {}
  /\ scope = Null

\* A call of findDependencies(absoluteImports)
FindDependencies(absoluteImports) ==
  /\ ev' = [op |-> "findDependencies", imports |-> absoluteImports,
            ret |-> findDependencies(specifierToCache, absoluteImports)]
  /\ UNCHANGED <<specifierToCache, phase, lastIndex, lastError, run, starts,
                 invalidations, returned, thrown, scope>>

NextDependencies ==
  \/ \E absoluteImports \in ImportLists : FindDependencies(absoluteImports)
  \/ \E s \in SpecifierSet : \E i \in 1..Len(specifierToCache[s]) :
       \E removed \in BOOLEAN :
         Invalidate(s, relative(specifierToCache[s][i].path), removed)

SpecDependencies == InitDependencies /\ [][NextDependencies]_vars

\* ========================================================================
\* Claims
\* ========================================================================
AllPaths == {docA, storiesA, storiesB, shotB}

\* The step is a call of getIndex()
IsGetIndexCall == ev'.op = "getIndex" /\ starts' = starts + 1

\* The step is a call of invalidate()
IsInvalidateCall == ev'.op = "invalidate" /\ invalidations' = invalidations + 1

\* C1: when getIndex() has returned an index and is called again with no
\* invalidate() in between, the call returns that same index and invokes no
\* extractor
GetIndexIdempotent ==
  [][(IsGetIndexCall /\ returned # {})
       => /\ ev'.ret.kind = "index"
          /\ returned = {ev'.ret.val}
          /\ run' = run
          /\ specifierToCache' = specifierToCache]_vars

\* C2: the memoized index and the memoized error are never both set
MemosExclusive == ~(lastIndex # Null /\ lastError # Null)

\* C3: once getIndex() has thrown, every later call re-throws that same
\* error without any extraction until invalidate() is called, and the call
\* that follows an invalidate() runs the extraction again
RethrowUntilInvalidate ==
  [][/\ (IsGetIndexCall /\ thrown # {})
          => /\ ev'.ret.kind = "error"
             /\ thrown = {ev'.ret.val}
             /\ run' = run
             /\ specifierToCache' = specifierToCache
     /\ (IsGetIndexCall /\ ev.op = "invalidate") => ~ev'.memo]_vars

\* C4: in one ensureExtracted run no secondary extraction is under way while
\* a primary extraction of that run has not settled
SweepBarrier ==
  \A c \in Calls : run[c].pend2 # {} => run[c].pend1 = {}

\* C4 witness: the last primary extraction of a run has just settled and the
\* run has started secondary extractions
SweepBarrierWitness ==
  /\ ev.op = "settle"
  /\ ~isDocsMdx(ev.task[2])
  /\ run[ev.call].pc = "sweep2"
  /\ run[ev.call].pend2 # {}

\* The step is the failure of the updater of task ev'.task in run ev'.call
IsFailedSettle == ev'.op = "settle" /\ ~ev'.ok

\* The tasks of run r in flight in the first sweep (primary) or the second
InFlight(r, primary) == IF primary THEN r.pend1 ELSE r.pend2

\* C5: when the updater of one pair fails, the pair's slot becomes an error
\* entry with the relativized path, the other tasks of the same sweep stay
\* in flight to store their own results, and the run goes on as it would
\* after a success: it only leaves the sweep when no task of it is left
FailureIsolation ==
  [][IsFailedSettle
       => LET c == ev'.call
              task == ev'.task
              primary == task \in run[c].pend1
              others == InFlight(run[c], primary) \ {task}
              slot == Get(specifierToCache'[task[1]], task[2])
          IN /\ slot.type = "error"
             /\ slot.err.paths = <<relative(task[2])>>
             /\ others \subseteq InFlight(run'[c], primary)
             /\ others # {} => run'[c].pc = run[c].pc
             /\ \A t \in others :
                  Get(specifierToCache'[t[1]], t[2])
                    = Get(specifierToCache[t[1]], t[2])]_vars

\* C5 witness: an updater has just failed while another task of its sweep
\* is still in flight
FailureIsolationWitness ==
  /\ ev.op = "settle"
  /\ ~ev.ok
  /\ run[ev.call].pc = "sweep1"
  /\ run[ev.call].pend1 # {}
  /\ Get(specifierToCache[ev.task[1]], ev.task[2]).type = "error"

\* The step in which ensureExtracted returns to the getIndex() call c
ExtractionEnds(c) ==
  /\ ev'.call = c
  /\ ev'.op \in {"getIndex", "settle"}
  /\ ~ev'.memo
  /\ IF ev'.op = "getIndex" THEN starts' = starts + 1
     ELSE run[c].kind = "getIndex" /\ run[c].pc \in {"sweep1", "sweep2"}
  /\ run'[c].pc \in {"idle", "sort"}

\* The errors of the error slots, cache by cache in key order
SlotErrors(caches) ==
  ConcatAll([i \in 1..Len(Specifiers) |->
     LET slots == SelectSeq(caches[Specifiers[i]],
                            LAMBDA r : r.entry.type = "error")
     IN [j \in 1..Len(slots) |-> slots[j].entry.err]])

\* The index entries of the truthy slots that hold no error
SlotEntries(caches) ==
  ConcatAll([i \in 1..Len(Specifiers) |->
     ConcatAll([j \in 1..Len(caches[Specifiers[i]]) |->
        LET entry == caches[Specifiers[i]][j].entry
        IN IF entry.type = "stories" THEN entry.entries
           ELSE IF entry.type = "docs" THEN <<entry>>
           ELSE <<>>])])

\* The entry held for id once the entries of list have been resolved in
\* order, Undefined when none has that id
RECURSIVE Holder(_, _)
Holder(list, id) ==
  IF list = <<>> THEN Undefined
  ELSE LET before == Holder(SubSeq(list, 1, Len(list) - 1), id)
           entry == list[Len(list)]
       IN IF entry.id # id THEN before
          ELSE IF before = Undefined THEN entry
          ELSE IF chooseDuplicate(before, entry).ok
               THEN chooseDuplicate(before, entry).entry
               ELSE before

\* The conflict errors of list: one for every entry whose resolution against
\* the holder of its id fails
ConflictErrors(list) ==
  LET holder(i) == Holder(SubSeq(list, 1, i - 1), list[i].id)
      failing == SelectSeq([i \in 1..Len(list) |-> i],
                           LAMBDA i : /\ holder(i) # Undefined
                                      /\ ~chooseDuplicate(holder(i), list[i]).ok)
  IN [k \in 1..Len(failing) |->
        chooseDuplicate(holder(failing[k]), list[failing[k]]).err]

\* C6: when a slot holds an error entry after the extraction, getIndex()
\* throws one aggregate error made of exactly the errors of the error
\* slots, whatever duplicates the entries hold
ErrorPrecedence ==
  [][\A c \in Calls :
       (ExtractionEnds(c) /\ SlotErrors(specifierToCache') # <<>>)
         => /\ ev'.ret = [kind |-> "error",
                          val |-> MultipleIndexingError(
                                    SlotErrors(specifierToCache'))]
            /\ lastError' = ev'.ret.val
            /\ run'[c].pc = "idle"]_vars

\* C6 witness: getIndex() has just thrown the errors of the error slots
\* while the extracted entries hold conflicting duplicates
ErrorPrecedenceWitness ==
  /\ ev.op = "settle"
  /\ ev.ret.kind = "error"
  /\ SlotErrors(specifierToCache) # <<>>
  /\ ConflictErrors(SlotEntries(specifierToCache)) # <<>>

\* C7: without error slots getIndex() resolves every entry in order and, if
\* a resolution failed, throws one aggregate error that holds one conflict
\* error for every entry whose resolution against the holder of its id
\* failed; without a failed resolution it goes on to sortStories
ConflictsCollected ==
  [][\A c \in Calls :
       (ExtractionEnds(c) /\ SlotErrors(specifierToCache') = <<>>)
         => LET conflicts == ConflictErrors(SlotEntries(specifierToCache'))
            IN IF conflicts # <<>>
               THEN /\ ev'.ret = [kind |-> "error",
                                  val |-> MultipleIndexingError(conflicts)]
                    /\ lastError' = ev'.ret.val
               ELSE /\ ev'.ret.kind = "none"
                    /\ run'[c].pc = "sort"]_vars

\* C7 witness: getIndex() has just thrown two conflict errors, one for each
\* of two ids
ConflictsCollectedWitness ==
  /\ ev.ret.kind = "error"
  /\ ~ev.memo
  /\ SlotErrors(specifierToCache) = <<>>
  /\ ev.ret.val.type = "multiple"
  /\ Len(ev.ret.val.errors) = 2
  /\ ev.ret.val.errors[1].detail # ev.ret.val.errors[2].detail

\* Two slots are in the same state: the same entry, the dependents list of a
\* stories entry left aside
SameSlot(a, b) ==
  IF a.type = "stories" /\ b.type = "stories" THEN a.entries = b.entries
  ELSE a = b

\* C8: invalidate(specifier, P, removed) deletes P's slot (removed) or
\* resets it to Unprocessed, resets the slots of the paths in the dependents
\* list of P's stories entry in every cache, and leaves every other slot of
\* every cache as it was
InvalidationLocality ==
  [][IsInvalidateCall
       => LET P == ev'.task[2]
              old == Get(specifierToCache[ev'.task[1]], P)
          IN \A s \in SpecifierSet : \A q \in AllPaths :
               LET before == Get(specifierToCache[s], q)
                   after == Get(specifierToCache'[s], q)
               IN IF s = ev'.task[1] /\ q = P
                  THEN after = (IF ev'.removed THEN Undefined ELSE Unprocessed)
                  ELSE IF /\ old.type = "stories"
                          /\ q \in Range(old.dependents)
                          /\ before # Undefined
                  THEN after = Unprocessed
                  ELSE SameSlot(before, after)]_vars

\* The stories entries a docs entry depends on: those cached, in any cache,
\* under a path its storiesImports resolve to
DependenciesOf(caches, docsEntry) ==
  {ref \in SpecifierSet \X AllPaths :
     /\ Get(caches[ref[1]], ref[2]).type = "stories"
     /\ \E i \in 1..Len(docsEntry.storiesImports) :
          resolve(docsEntry.storiesImports[i]) = ref[2]}

\* C9: once a docs file has been extracted, each stories entry it depends
\* on has the docs file's path in its dependents list; once the docs file
\* has been removed by invalidate, none of them has
DependencySymmetry ==
  [][/\ (ev'.op = "settle" /\ ev'.ok
           /\ Get(specifierToCache'[ev'.task[1]], ev'.task[2]).type = "docs")
          => \A ref \in DependenciesOf(
                          specifierToCache',
                          Get(specifierToCache'[ev'.task[1]], ev'.task[2])) :
               ev'.task[2] \in
                 Range(Get(specifierToCache'[ref[1]], ref[2]).dependents)
     /\ (IsInvalidateCall /\ ev'.removed
           /\ Get(specifierToCache[ev'.task[1]], ev'.task[2]).type = "docs")
          => \A ref \in DependenciesOf(
                          specifierToCache,
                          Get(specifierToCache[ev'.task[1]], ev'.task[2])) :
               LET after == Get(specifierToCache'[ref[1]], ref[2])
               IN after.type = "stories"
                    => ev'.task[2] \notin Range(after.dependents)]_vars

\* C10: every invalidate(specifier, path, removed) ends with the memoized
\* index and the memoized error cleared and the path's slot deleted
\* (removed) or reset to Unprocessed
InvalidateClears ==
  ev.op = "invalidate"
    => /\ lastIndex = Null
       /\ lastError = Null
       /\ Get(specifierToCache[ev.task[1]], ev.task[2])
            = (IF ev.removed THEN Undefined ELSE Unprocessed)

\* The extractions the step launches for call c: the tasks that wait for a
\* story indexer or for fs.readFile after the step and did not before
Launched(c) ==
  (run'[c].pend1 \ run[c].pend1) \cup (run'[c].pend2 \ run[c].pend2)

\* C11: once an index has been built from the caches as they stand, an
\* invalidate(specifier, P, removed) followed by getIndex() launches
\* extractions (story indexer or read of a docs file) only for P and for the
\* paths recorded as dependents of P, never for another path of any cache
WarmCache ==
  [][scope # Null => \A c \in Calls : Launched(c) \subseteq scope.pairs]_vars

\* A docs entry that is neither attached by the autodocs tag nor to a CSF
\* file made of a .stories.mdx
RealDocs(entry) ==
  /\ entry.type = "docs"
  /\ AUTODOCS_TAG \notin entry.tags
  /\ STORIES_MDX_TAG \notin entry.tags

\* C12: when chooseDuplicate(a, b) returns and exactly one of a, b is a
\* story, it returns that story; when both are docs entries and exactly one
\* is a real docs entry, it returns that one; in either order of a and b
Ranking ==
  (ev.op = "chooseDuplicate" /\ ev.ret.ok)
    => LET a == ev.first
           b == ev.second
           docs == a.type = "docs" /\ b.type = "docs"
       IN /\ (a.type = "story" /\ b.type # "story") => ev.ret.entry = a
          /\ (b.type = "story" /\ a.type # "story") => ev.ret.entry = b
          /\ (docs /\ RealDocs(a) /\ ~RealDocs(b)) => ev.ret.entry = a
          /\ (docs /\ ~RealDocs(a) /\ RealDocs(b)) => ev.ret.entry = b

\* C12 witness: chooseDuplicate has returned its second argument, a real
\* docs entry, the first being an autogenerated docs entry
RankingWitness ==
  /\ ev.op = "chooseDuplicate"
  /\ ev.ret.ok
  /\ ev.first.type = "docs"
  /\ ~RealDocs(ev.first)
  /\ RealDocs(ev.second)
  /\ ev.ret.entry = ev.second

\* The positions in list of the story entries that follow a story entry
\* with the same id
RepeatedStories(list) ==
  {j \in 1..Len(list) :
     /\ list[j].type = "story"
     /\ \E i \in 1..(j - 1) : list[i].type = "story" /\ list[i].id = list[j].id}

\* The first story entry of list with the id of list[j]
FirstStory(list, j) ==
  list[CHOOSE i \in 1..j :
         /\ list[i].type = "story" /\ list[i].id = list[j].id
         /\ \A k \in 1..(i - 1) :
              ~(list[k].type = "story" /\ list[k].id = list[j].id)]

\* C13: when the extraction ends without error slots and the entries hold
\* two story entries with one id, wherever they stand and whatever other
\* entries have that id, getIndex() throws: the aggregate holds, for every
\* story entry that repeats the id of an earlier one, a conflict error that
\* names the import paths of the first story of that id and of the repeating
\* one, the error is memoized, and no index is memoized or returned
TwoStoriesNeverIndex ==
  [][\A c \in Calls :
       LET list == SlotEntries(specifierToCache')
       IN (/\ ExtractionEnds(c)
           /\ SlotErrors(specifierToCache') = <<>>
           /\ RepeatedStories(list) # {})
            => /\ ev'.ret.kind = "error"
               /\ ev'.ret.val.type = "multiple"
               /\ \A j \in RepeatedStories(list) :
                    \E k \in 1..Len(ev'.ret.val.errors) :
                      /\ ev'.ret.val.errors[k].message
                           = "Duplicate stories with id"
                      /\ ev'.ret.val.errors[k].paths
                           = <<FirstStory(list, j).importPath,
                               list[j].importPath>>
               /\ lastError' = ev'.ret.val
               /\ lastIndex' = Null
               /\ run'[c].pc = "idle"]_vars

\* C13 witness: getIndex() has just thrown the conflict of two stories that
\* have a docs entry with their id between them
TwoStoriesWitness ==
  LET list == SlotEntries(specifierToCache)
  IN /\ ev.op = "getIndex"
     /\ ~ev.memo
     /\ ev.ret.kind = "error"
     /\ Len(list) = 3
     /\ list[1].type = "story"
     /\ list[2].type = "docs"
     /\ list[3].type = "story"
     /\ lastError = ev.ret.val
     /\ lastIndex = Null

\* Two entries have the same content
SameContent(a, b) ==
  /\ a.type = b.type
  /\ a.title = b.title
  /\ a.name = b.name
  /\ a.importPath = b.importPath
  /\ a.type = "docs" => Range(a.storiesImports) = Range(b.storiesImports)

\* Both entries are stories, or real docs entries, or autogenerated docs
\* entries
SameRank(a, b) ==
  IF a.type = "story" \/ b.type = "story" THEN a.type = b.type
  ELSE RealDocs(a) <=> RealDocs(b)

\* C14: chooseDuplicate(a, b) and chooseDuplicate(b, a) both throw, or both
\* return entries with the same content
OrderIndependent ==
  ev.op = "chooseDuplicate"
    => LET swapped == chooseDuplicate(ev.second, ev.first)
       IN /\ ev.ret.ok = swapped.ok
          /\ ev.ret.ok => SameContent(ev.ret.entry, swapped.entry)

\* C14 as amended: chooseDuplicate(a, b) and chooseDuplicate(b, a) both
\* throw or both return; they return entries with the same content when a
\* and b differ in rank; when both are real docs entries or both are
\* autogenerated docs entries, each call returns an entry with the type,
\* title, name and importPath of its own first argument
OrderDecidesTies ==
  ev.op = "chooseDuplicate"
    => LET a == ev.first
           b == ev.second
           swapped == chooseDuplicate(b, a)
           Keeps(entry, first) ==
             /\ entry.type = first.type
             /\ entry.title = first.title
             /\ entry.name = first.name
             /\ entry.importPath = first.importPath
       IN /\ ev.ret.ok = swapped.ok
          /\ (ev.ret.ok /\ ~SameRank(a, b))
               => SameContent(ev.ret.entry, swapped.entry)
          /\ (ev.ret.ok /\ SameRank(a, b))
               => Keeps(ev.ret.entry, a) /\ Keeps(swapped.entry, b)

\* C14 witness: chooseDuplicate has returned the first of two real docs
\* entries of different files
OrderDecidesTiesWitness ==
  /\ ev.op = "chooseDuplicate"
  /\ ev.ret.ok
  /\ RealDocs(ev.first)
  /\ RealDocs(ev.second)
  /\ ev.first.importPath # ev.second.importPath
  /\ ev.ret.entry = ev.first

\* chooseDuplicate is given two docs entries of which neither is real
IsMerge ==
  /\ ev.op = "chooseDuplicate"
  /\ ev.first.type = "docs"
  /\ ev.second.type = "docs"
  /\ ~RealDocs(ev.first)
  /\ ~RealDocs(ev.second)

\* C15: given two docs entries of which neither is real, chooseDuplicate
\* returns an entry with the first entry's title, name and importPath whose
\* storiesImports are exactly those of the two entries
MergeIsUnion ==
  IsMerge
    => /\ ev.ret.ok
       /\ ev.ret.entry.title = ev.first.title
       /\ ev.ret.entry.name = ev.first.name
       /\ ev.ret.entry.importPath = ev.first.importPath
       /\ Range(ev.ret.entry.storiesImports)
            = Range(ev.first.storiesImports)
                \cup Range(ev.second.storiesImports)

\* C15 as amended: given two docs entries of which neither is real,
\* chooseDuplicate returns an entry with the first entry's title, name and
\* importPath whose storiesImports are the first entry's storiesImports,
\* then the second entry's importPath, then the second entry's
\* storiesImports
MergeKeepsBothFiles ==
  IsMerge
    => /\ ev.ret.ok
       /\ ev.ret.entry.title = ev.first.title
       /\ ev.ret.entry.name = ev.first.name
       /\ ev.ret.entry.importPath = ev.first.importPath
       /\ ev.ret.entry.storiesImports
            = ev.first.storiesImports \o <<ev.second.importPath>>
                \o ev.second.storiesImports

\* C15 witness: an entry that is itself the merge of two has been merged
\* with a third
MergeKeepsBothFilesWitness ==
  /\ IsMerge
  /\ ev.first.storiesImports # <<>>
  /\ Len(ev.ret.entry.storiesImports) = 2

\* The cached pairs whose entry is a stories entry
StoriesPairs(caches) ==
  {ref \in SpecifierSet \X UNION {Range(Keys(caches[s])) : s \in SpecifierSet} :
     Get(caches[ref[1]], ref[2]).type = "stories"}

\* C16: findDependencies(absoluteImports) returns exactly the stories
\* entries, over all caches, of the cached paths that are prefixes of at
\* least one import of the list, and an import that matches no cached path
\* is ignored without error
FindsPrefixesOfImports ==
  ev.op = "findDependencies"
    => LET matching ==
             {ref \in StoriesPairs(specifierToCache) :
                \E i \in 1..Len(ev.imports) :
                  startsWith(ev.imports[i], ref[2])}
       IN ev.ret.ok => Range(ev.ret.deps) = matching

\* The cached pairs whose path starts with an import of the list
StartingWith(caches, absoluteImports) ==
  {ref \in SpecifierSet \X UNION {Range(Keys(caches[s])) : s \in SpecifierSet} :
     /\ Has(caches[ref[1]], ref[2])
     /\ \E i \in 1..Len(absoluteImports) :
          startsWith(ref[2], absoluteImports[i])}

\* C16 as amended: findDependencies(absoluteImports) throws when a cached
\* path that starts with an import of the list holds anything but a stories
\* entry; otherwise it returns exactly the stories entries, over all caches,
\* of the cached paths that start with at least one import of the list, each
\* once, and an import no cached path starts with is ignored without error
FindsPathsStartingWithImports ==
  ev.op = "findDependencies"
    => LET matching == StartingWith(specifierToCache, ev.imports)
       IN IF matching \subseteq StoriesPairs(specifierToCache)
          THEN /\ ev.ret.ok
               /\ Range(ev.ret.deps) = matching
               /\ Len(ev.ret.deps) = Cardinality(matching)
          ELSE ~ev.ret.ok

\* C16 witness: findDependencies has returned the stories entry of a path
\* that is longer than the import it starts with, another import matching
\* nothing
FindsPathsWitness ==
  /\ ev.op = "findDependencies"
  /\ ev.ret.ok
  /\ Len(ev.ret.deps) = 1
  /\ Len(ev.imports) = 2
  /\ \E i \in 1..2 : /\ startsWith(ev.ret.deps[1][2], ev.imports[i])
                      /\ ev.ret.deps[1][2] # ev.imports[i]
  /\ \E i \in 1..2 : StartingWith(specifierToCache, <<ev.imports[i]>>) = {}

\* seq without the occurrences of x
Without(seq, x) == SelectSeq(seq, LAMBDA y : y # x)

\* C17: invalidate(specifier, D, removed = true) of a path D that holds a
\* docs entry changes the dependents lists of the stories entries only by
\* removing occurrences of D: the other paths of every list stay, in their
\* order, and no list grows
RemovalTouchesOwnEdges ==
  [][(/\ IsInvalidateCall
      /\ ev'.removed
      /\ Get(specifierToCache[ev'.task[1]], ev'.task[2]).type = "docs")
       => \A ref \in StoriesPairs(specifierToCache) :
            LET before == Get(specifierToCache[ref[1]], ref[2])
                after == Get(specifierToCache'[ref[1]], ref[2])
            IN /\ after.type = "stories"
               /\ Without(after.dependents, ev'.task[2])
                    = Without(before.dependents, ev'.task[2])
               /\ Len(after.dependents) <= Len(before.dependents)]_vars

\* Call c is a getIndex() that has not settled
Suspended(c) == run[c].kind = "getIndex" /\ run[c].pc # "idle"

\* C18: when every extractor that was invoked settles, every getIndex() call
\* settles, returning an index or throwing, and the step that settles it
\* leaves the index it returns in lastIndex, or the error it throws in
\* lastError
GetIndexTerminates ==
  /\ \A c \in Calls : Suspended(c) ~> ~Suspended(c)
  /\ [][/\ \A c \in Calls :
             Suspended(c) /\ run'[c].pc = "idle"
               => ev'.call = c /\ ev'.ret.kind \in {"index", "error"}
        /\ IsGetIndexCall /\ run'[ev'.call].pc = "idle"
             => ev'.ret.kind \in {"index", "error"}
        /\ ev'.ret.kind = "index" => lastIndex' = ev'.ret.val
        /\ ev'.ret.kind = "error" => lastError' = ev'.ret.val]_vars

\* C18 witness: a getIndex() that was suspended on its extractors and on
\* sortStories has returned its index and left it in lastIndex
GetIndexTerminatesWitness ==
  /\ ev.op = "sorted"
  /\ ev.ret.kind = "index"
  /\ lastIndex = ev.ret.val
  /\ ~Suspended(ev.call)
  /\ invalidations > 0

\* C19: in every interleaving extractDocs is invoked on paths with
\* isDocsMdx only, and the story indexer on the other paths only, also when
\* invalidate() of a stories file arrives while ensureExtracted is suspended
\* between or inside its two sweeps
ExtractorsByFormat ==
  \A c \in Calls :
    /\ \A task \in run[c].pend2 : isDocsMdx(task[2])
    /\ \A task \in run[c].pend1 : ~isDocsMdx(task[2])

\* invalidate(specifier, P, false) has just returned, an extraction of P that
\* a suspended call began before it is in flight, and it settles now
StaleSettle ==
  /\ ev.op = "invalidate" /\ ev.ok /\ ~ev.removed
  /\ ev'.op = "settle"
  /\ ev'.task = ev.task
  /\ Get(specifierToCache[ev.task[1]], ev.task[2]) = Unprocessed

\* C20: an extraction of P that was in flight when invalidate(specifier, P,
\* false) returned does not overwrite the reset slot of P with its result
\* when it settles, so that no later getIndex() is served an index built
\* from it
NoStaleWrite ==
  [][StaleSettle
       => Get(specifierToCache'[ev.task[1]], ev.task[2]) = Unprocessed]_vars

\* The caches of a generator that is initialized on the files that are
\* cached now: the keys of every cache in the order of the sorted glob, the
\* extractors answering what they answered for the cached entries
FromScratch(caches) ==
  [s \in SpecifierSet |->
     LET files == SelectSeq(glob(s), LAMBDA f : Has(caches[s], f))
     IN [i \in 1..Len(files) |->
           [path |-> files[i], entry |-> Get(caches[s], files[i])]]]

\* C21: after initialize() and any sequence of file changes, each reported
\* by its invalidate() call, the index getIndex() returns has the entries,
\* in the order, of the index a generator initialized on the current files
\* returns
IncrementalEqualsFromScratch ==
  (Quiet /\ ev.ret.kind = "index")
    => LET fresh == FromScratch(specifierToCache)
           body == getIndexBody(storiesListOf(fresh))
       IN /\ body.ok
          /\ ev.ret.val = [v |-> IndexVersion,
                           entries |-> sortStories(body.entries, fresh)]

\* The slot holds the error of a docs file whose import matched a slot
\* without a stories entry
DependencyError(entry) ==
  entry.type = "error" /\ entry.err.message = "Unexpected dependency"

\* C22: when a stories file whose failed extraction made a docs file fail
\* has been invalidated and extracted again, the getIndex() that extracted
\* it leaves no docs slot with the error of the failed run: once that call
\* has ended and every stories file is cached with a stories entry, no docs
\* file holds a dependency error
RecoversDependents ==
  (/\ Quiet
   /\ ev.ret.kind \in {"index", "error"}
   /\ \A s \in SpecifierSet : \A file \in watched(s) :
        ~isDocsMdx(file) => Get(specifierToCache[s], file).type = "stories")
    => \A s \in SpecifierSet : \A i \in 1..Len(specifierToCache[s]) :
         ~DependencyError(specifierToCache[s][i].entry)
====
